---------------------------- MODULE Spec2Model ----------------------------
(***************************************************************************)
(* A model of mindnlp/_legacy/initializer.py (the XavierNormal initializer *)
(* and its helpers _numpy_seed and _init_random_normal) and of the shape   *)
(* assertions of tests/ut/transformers/models/oneformer.                   *)
(*                                                                         *)
(* The initializer is modelled as two executions ("runs") of the same      *)
(* program that are driven in lockstep with the same inputs: both runs     *)
(* receive the same numpy.random.seed calls and the same initializer       *)
(* calls, and differ only in their environment (the system time and the    *)
(* OS entropy that seeds numpy's global generator at import).  Each run is *)
(* stepped statement by statement through the code of the call.            *)
(***************************************************************************)
EXTENDS Integers, Sequences, FiniteSets, TLC

(***************************************************************************)
(* Bounds of the model.                                                    *)
(***************************************************************************)
\* calls of the initializer made by one run
MaxCalls == 2
\* ticks of the system clock
MaxClock == 1

Runs == {"A", "B"}

(***************************************************************************)
(* 64-bit unsigned values as four 16-bit limbs, most significant first     *)
(* (TLC's integers are 32 bits wide; the seeds are int64).                 *)
(***************************************************************************)
LimbBase == 2^16
U64Zero == <<0, 0, 0, 0>>
U64One == <<0, 0, 0, 1>>
U64Max == <<LimbBase - 1, LimbBase - 1, LimbBase - 1, LimbBase - 1>>

\* 1 << k, for 0 <= k < 64
Shl1(k) == [i \in 1..4 |-> IF i = 4 - (k \div 16) THEN 2^(k % 16) ELSE 0]

U64Lt(a, b) ==
    \E i \in 1..4 : a[i] < b[i] /\ \A j \in 1..(i - 1) : a[j] = b[j]
U64Le(a, b) == a = b \/ U64Lt(a, b)

\* a - 1, for a > 0
U64Pred(a) ==
    LET low == CHOOSE i \in 1..4 : a[i] > 0 /\ \A j \in (i + 1)..4 : a[j] = 0
    IN  [i \in 1..4 |-> IF i < low THEN a[i]
                        ELSE IF i = low THEN a[i] - 1
                        ELSE LimbBase - 1]

\* the largest value of numpy.int64
Int64Max == U64Pred(Shl1(63))

(***************************************************************************)
(* Real numbers of the form sgn * sqrt(num / den), num/den in lowest       *)
(* terms: the standard deviations the initializer computes.                *)
(***************************************************************************)
RECURSIVE Gcd(_, _)
Gcd(a, b) == IF b = 0 THEN a ELSE Gcd(b, a % b)

Sign(x) == IF x < 0 THEN -1 ELSE IF x = 0 THEN 0 ELSE 1

Root(sgn, num, den) ==
    IF sgn = 0 \/ num = 0
    THEN [sgn |-> 0, num |-> 0, den |-> 1]
    ELSE [sgn |-> sgn, num |-> num \div Gcd(num, den), den |-> den \div Gcd(num, den)]

\* math.sqrt(num / den)
MathSqrt(num, den) == Root(1, num, den)
\* g * x for an integer g
Times(g, x) == Root(Sign(g) * x.sgn, g * g * x.num, x.den)

(***************************************************************************)
(* Inputs.                                                                 *)
(***************************************************************************)
Gains == {-1, 1, 2}
Shapes == {<<3>>, <<0, 0>>, <<2, 3>>, <<2, 1, 3>>}
DirectShapes == {<<3>>, <<2, 3>>}
Means == {0, 1}
Sigmas == {Root(-1, 1, 1), Root(0, 0, 1), Root(1, 1, 4)}
NpSeeds == {7, 42}
Entropies == {1, 2}


\* values numpy's generator may hand out; the draw keeps those in [low, high)
RandintCandidates ==
    {U64Zero, U64One, Shl1(32), Int64Max, Shl1(63), U64Max}

(***************************************************************************)
(* State.  Every variable but mtStream is a function of the run.           *)
(***************************************************************************)
VARIABLES
    pc,         \* the statement the run is at: "idle" between calls
    caller,     \* who entered _init_random_normal: "XavierNormal" or "direct"
    gain,       \* self.gain of the XavierNormal instance
    arr,        \* the array object given to _initialize
    fan,        \* (fan_in, fan_out) of the current call
    mean,       \* arguments of _init_random_normal
    sigma,
    shape,
    data,       \* the buffer _init_random_normal allocates
    seedv,      \* the value _numpy_seed returned
    ret,        \* what the call returned to its caller
    err,        \* the exception the call raised, "none" if none
    gen,        \* numpy's global generator: what seeded it, and its position
    clock,      \* the system time
    mtStream,   \* which output stream numpy's generator produces (fixed for a behaviour)
    lastNative, \* arguments of the latest call of the native random_normal
    steps,      \* statements the current call has executed, in order
    nCalls,     \* calls entered
    nOk,        \* calls completed without an exception
    nDraws,     \* values drawn from numpy's generator
    nNative,    \* calls of the native random_normal
    nSinceSeed, \* calls of the native random_normal since numpy.random.seed
    nAssign,    \* assignments into a target array
    tpc,        \* the unit test: "new", "ready" (after setUp) or "done"
    testName,   \* the test method that ran
    tester,     \* the OneFormerModelTester's attributes
    tinputs,    \* the inputs_dict prepare_config_and_inputs_for_common returned to the test method
    tconfig,    \* the config object the test method built, as the test left it
    tcalls,     \* the calls the test method made on the model classes, in order
    tresult,    \* the model outputs the test method looked at
    tverdict    \* "passed", "failed" (an assertion failed) or "error" (another exception), "none" before

callVars == <<pc, caller, gain, arr, fan, mean, sigma, shape, data, seedv, ret, err, steps>>
envVars == <<gen, clock, mtStream>>
logVars == <<lastNative, nCalls, nOk, nDraws, nNative, nSinceSeed, nAssign>>
testVars == <<tpc, testName, tester, tinputs, tconfig, tcalls, tresult, tverdict>>
vars == <<callVars, envVars, logVars, testVars>>

NoContent == [filled |-> FALSE, seed |-> U64Zero, mean |-> 0, sigma |-> Root(0, 0, 1)]
NoArray == [id |-> "none", shape |-> <<>>, dtype |-> "none", content |-> NoContent]
NoFan == [fan_in |-> -1, fan_out |-> -1]
NoNative == [seed |-> U64Zero, mean |-> 0, sigma |-> Root(0, 0, 1), shape |-> <<>>]

All(f, v) == \A r \in Runs : f[r] = v
Const(v) == [r \in Runs |-> v]

(***************************************************************************)
(* The code, statement by statement.                                       *)
(***************************************************************************)
\* mindspore's _calculate_fan_in_and_fan_out raises ValueError below 2 dimensions
FanDefined(shp) == Len(shp) >= 2

RECURSIVE Product(_, _)
Product(shp, i) == IF i > Len(shp) THEN 1 ELSE shp[i] * Product(shp, i + 1)

CalculateFanInAndFanOut(shp) ==
    IF Len(shp) = 2
    THEN [fan_in |-> shp[2], fan_out |-> shp[1]]
    ELSE [fan_in |-> shp[2] * Product(shp, 3), fan_out |-> shp[1] * Product(shp, 3)]

\* 2.0 / float(fan_in + fan_out) raises ZeroDivisionError on a zero divisor
StdDefined(f) == f.fan_in + f.fan_out # 0

\* a variant that scales by fan_in alone
XavierStdFanInOnly(g, f) == Times(g, MathSqrt(2, f.fan_in))

\* std = self.gain * math.sqrt(2.0 / float(fan_in + fan_out))
XavierStd(g, f) == Times(g, MathSqrt(2, f.fan_in + f.fan_out))

\* a variant that also rejects sigma = 0
SigmaRejectedZeroToo(s) == s.sgn <= 0

\* if sigma < 0: raise ValueError("sigma < 0")
SigmaRejected(s) == s.sgn < 0

\* data = np.ndarray(shape=shape, dtype=np.float32)
NewBuffer(shp) == [id |-> "data", shape |-> shp, dtype |-> "float32", content |-> NoContent]

\* a variant that draws from 0
NumpySeedLowZero == U64Zero

\* np.random.randint(low=1, high=(1 << 63), dtype=np.int64)
NumpySeedLow == U64One
NumpySeedHigh == Shl1(63)
RandintRange(low, high) == {v \in RandintCandidates : U64Le(low, v) /\ U64Lt(v, high)}

\* a variant that seeds from the system time at every call
SeedSourceSystemTime(r) == [kind |-> "time", seed |-> clock[r], pos |-> 0]

\* the generator state _numpy_seed reads: numpy's global generator, at its position
SeedSource(r) == gen[r]

\* the i-th smallest value of a set of 64-bit values, i from 0
Nth(S, i) == CHOOSE v \in S : Cardinality({w \in S : U64Lt(w, v)}) = i

\* randint on a generator in state g: a function of the seeding and the position
\* (the generator is deterministic; mtStream ranges over a family of such functions)
Randint(g, low, high) ==
    LET range == RandintRange(low, high)
        code == IF g.kind = "seed" THEN g.seed ELSE g.seed + 3
    IN  Nth(range, (mtStream + code + 2 * g.pos) % Cardinality(range))

\* a variant that consumes two values per draw
AdvanceGenTwice(g) == [g EXCEPT !.pos = @ + 2]

\* one draw moves the generator one position on
AdvanceGen(g) == [g EXCEPT !.pos = @ + 1]

\* _random_normal(seed, data, mean, sigma) fills the whole buffer, a function of its arguments
RandomNormal(sd, buf, mu, sg) ==
    [buf EXCEPT !.content = [filled |-> TRUE, seed |-> sd, mean |-> mu, sigma |-> sg]]

\* a variant that rebinds the name to the new buffer instead of copying into the array
AssignmentRebind(a, d) == d

\* mindspore's _assignment(arr, data): arr[:] = data[:], in place
Assignment(a, d) == [a EXCEPT !.content = d.content]

\* a variant that draws the seed before it validates sigma
InitRandomNormalOrderSeedFirst == <<"seed", "check", "alloc", "native">>

\* the statements of _init_random_normal, in program order
InitRandomNormalOrder == <<"check", "alloc", "seed", "native">>

NextPc(p) ==
    LET i == CHOOSE k \in 1..Len(InitRandomNormalOrder) : InitRandomNormalOrder[k] = p
    IN  IF i = Len(InitRandomNormalOrder) THEN "return" ELSE InitRandomNormalOrder[i + 1]

Idle == All(pc, "idle")

Raise(e) ==
    /\ pc' = Const("idle")
    /\ err' = Const(e)

(***************************************************************************)
(* Environment.                                                            *)
(***************************************************************************)
\* numpy.random.seed(s), called by the program between initializer calls
NpRandomSeed(s) ==
    /\ UNCHANGED testVars
    /\ Idle
    /\ gen' = Const([kind |-> "seed", seed |-> s, pos |-> 0])
    /\ nSinceSeed' = Const(0)
    /\ UNCHANGED <<callVars, clock, mtStream, lastNative, nCalls, nOk, nDraws, nNative, nAssign>>

\* the system time passes (between calls)
Tick ==
    /\ UNCHANGED testVars
    /\ Idle
    /\ clock["A"] < MaxClock
    /\ clock' = [r \in Runs |-> clock[r] + 1]
    /\ UNCHANGED <<callVars, gen, mtStream, logVars>>

(***************************************************************************)
(* XavierNormal(gain)._initialize(arr), lines 119-124.                     *)
(***************************************************************************)
CallInitialize(g, shp) ==
    /\ UNCHANGED testVars
    /\ Idle
    /\ \A r \in Runs : nCalls[r] < MaxCalls
    /\ pc' = Const("fan")
    /\ caller' = Const("XavierNormal")
    /\ gain' = Const(g)
    /\ arr' = Const([id |-> "arr", shape |-> shp, dtype |-> "float32", content |-> NoContent])
    /\ fan' = Const(NoFan)
    /\ mean' = Const(0)
    /\ sigma' = Const(Root(0, 0, 1))
    /\ shape' = Const(<<>>)
    /\ data' = Const(NoArray)
    /\ seedv' = Const(U64Zero)
    /\ ret' = Const("unset")
    /\ err' = Const("none")
    /\ steps' = Const(<<>>)
    /\ nCalls' = [r \in Runs |-> nCalls[r] + 1]
    /\ UNCHANGED <<envVars, lastNative, nOk, nDraws, nNative, nSinceSeed, nAssign>>

\* fan_in, fan_out = _calculate_fan_in_and_fan_out(arr.shape)
CalculateFan ==
    /\ UNCHANGED testVars
    /\ All(pc, "fan")
    /\ steps' = [r \in Runs |-> Append(steps[r], "fan")]
    /\ IF \A r \in Runs : FanDefined(arr[r].shape)
       THEN /\ fan' = [r \in Runs |-> CalculateFanInAndFanOut(arr[r].shape)]
            /\ pc' = Const("std")
            /\ UNCHANGED err
       ELSE /\ Raise("ValueError")
            /\ UNCHANGED fan
    /\ UNCHANGED <<caller, gain, arr, mean, sigma, shape, data, seedv, ret, envVars, logVars>>

\* std = ...; data = _init_random_normal(0, std, arr.shape): the call is entered
ComputeStd ==
    /\ UNCHANGED testVars
    /\ All(pc, "std")
    /\ steps' = [r \in Runs |-> Append(steps[r], "std")]
    /\ IF \A r \in Runs : StdDefined(fan[r])
       THEN /\ mean' = Const(0)
            /\ sigma' = [r \in Runs |-> XavierStd(gain[r], fan[r])]
            /\ shape' = [r \in Runs |-> arr[r].shape]
            /\ pc' = Const(Head(InitRandomNormalOrder))
            /\ UNCHANGED err
       ELSE /\ Raise("ZeroDivisionError")
            /\ UNCHANGED <<mean, sigma, shape>>
    /\ UNCHANGED <<caller, gain, arr, fan, data, seedv, ret, envVars, logVars>>

(***************************************************************************)
(* _init_random_normal(mean, sigma, shape), lines 57-61.                   *)
(***************************************************************************)
\* a direct call, not through XavierNormal
CallInitRandomNormal(mu, sg, shp) ==
    /\ UNCHANGED testVars
    /\ Idle
    /\ \A r \in Runs : nCalls[r] < MaxCalls
    /\ pc' = Const(Head(InitRandomNormalOrder))
    /\ caller' = Const("direct")
    /\ mean' = Const(mu)
    /\ sigma' = Const(sg)
    /\ shape' = Const(shp)
    /\ gain' = Const(1)
    /\ arr' = Const(NoArray)
    /\ fan' = Const(NoFan)
    /\ data' = Const(NoArray)
    /\ seedv' = Const(U64Zero)
    /\ ret' = Const("unset")
    /\ err' = Const("none")
    /\ steps' = Const(<<>>)
    /\ nCalls' = [r \in Runs |-> nCalls[r] + 1]
    /\ UNCHANGED <<envVars, lastNative, nOk, nDraws, nNative, nSinceSeed, nAssign>>

\* if sigma < 0: raise ValueError("sigma < 0")
CheckSigma ==
    /\ UNCHANGED testVars
    /\ All(pc, "check")
    /\ steps' = [r \in Runs |-> Append(steps[r], "check")]
    /\ IF \E r \in Runs : SigmaRejected(sigma[r])
       THEN Raise("ValueError")
       ELSE /\ pc' = Const(NextPc("check"))
            /\ UNCHANGED err
    /\ UNCHANGED <<caller, gain, arr, fan, mean, sigma, shape, data, seedv, ret, envVars, logVars>>

\* data = np.ndarray(shape=shape, dtype=np.float32)
AllocData ==
    /\ UNCHANGED testVars
    /\ All(pc, "alloc")
    /\ steps' = [r \in Runs |-> Append(steps[r], "alloc")]
    /\ data' = [r \in Runs |-> NewBuffer(shape[r])]
    /\ pc' = Const(NextPc("alloc"))
    /\ UNCHANGED <<caller, gain, arr, fan, mean, sigma, shape, seedv, ret, err, envVars, logVars>>

\* _numpy_seed(): one draw from numpy's global generator
NumpySeed ==
    /\ UNCHANGED testVars
    /\ All(pc, "seed")
    /\ steps' = [r \in Runs |-> Append(steps[r], "seed")]
    /\ seedv' = [r \in Runs |-> Randint(SeedSource(r), NumpySeedLow, NumpySeedHigh)]
    /\ gen' = [r \in Runs |-> AdvanceGen(gen[r])]
    /\ nDraws' = [r \in Runs |-> nDraws[r] + 1]
    /\ pc' = Const(NextPc("seed"))
    /\ UNCHANGED <<caller, gain, arr, fan, mean, sigma, shape, data, ret, err, clock, mtStream,
                   lastNative, nCalls, nOk, nNative, nSinceSeed, nAssign>>

\* _random_normal(seed, data, mean, sigma); return data
CallRandomNormal ==
    /\ UNCHANGED testVars
    /\ All(pc, "native")
    /\ steps' = [r \in Runs |-> Append(steps[r], "native")]
    /\ data' = [r \in Runs |-> RandomNormal(seedv[r], data[r], mean[r], sigma[r])]
    /\ lastNative' = [r \in Runs |->
           [seed |-> seedv[r], mean |-> mean[r], sigma |-> sigma[r], shape |-> data[r].shape]]
    /\ nNative' = [r \in Runs |-> nNative[r] + 1]
    /\ nSinceSeed' = [r \in Runs |-> nSinceSeed[r] + 1]
    /\ pc' = Const(NextPc("native"))
    /\ UNCHANGED <<caller, gain, arr, fan, mean, sigma, shape, seedv, ret, err, envVars,
                   nCalls, nOk, nDraws, nAssign>>

\* return data: to the direct caller, or back into _initialize
ReturnData ==
    /\ UNCHANGED testVars
    /\ All(pc, "return")
    /\ steps' = [r \in Runs |-> Append(steps[r], "return")]
    /\ IF All(caller, "direct")
       THEN /\ ret' = Const("data")
            /\ pc' = Const("idle")
            /\ nOk' = [r \in Runs |-> nOk[r] + 1]
       ELSE /\ pc' = Const("assign")
            /\ UNCHANGED <<ret, nOk>>
    /\ UNCHANGED <<caller, gain, arr, fan, mean, sigma, shape, data, seedv, err, envVars,
                   lastNative, nCalls, nDraws, nNative, nSinceSeed, nAssign>>

\* _assignment(arr, data); _initialize returns None
Assign ==
    /\ UNCHANGED testVars
    /\ All(pc, "assign")
    /\ steps' = [r \in Runs |-> Append(steps[r], "assign")]
    /\ arr' = [r \in Runs |-> Assignment(arr[r], data[r])]
    /\ ret' = Const("None")
    /\ pc' = Const("idle")
    /\ nOk' = [r \in Runs |-> nOk[r] + 1]
    /\ nAssign' = [r \in Runs |-> nAssign[r] + 1]
    /\ UNCHANGED <<caller, gain, fan, mean, sigma, shape, data, seedv, err, envVars,
                   lastNative, nCalls, nDraws, nNative, nSinceSeed>>

(***************************************************************************)
(* tests/ut/transformers/models/oneformer/test_modeling_oneformer.py       *)
(***************************************************************************)
\* the defaults of OneFormerModelTester.__init__
DefaultBatchSize == 2
DefaultVocabSize == 99
DefaultNumQueries == 10
DefaultNumChannels == 3
DefaultSize == 32 * 8
DefaultNumLabels == 4
DefaultHiddenDim == 64
DefaultSequenceLength == 77
DefaultNCtx == 4

\* attribute values the tester is constructed with
BatchSizes == {1, DefaultBatchSize}
QueryCounts == {DefaultNumQueries, 12}
ImageSizes == {4, 6, DefaultSize}
LabelCounts == {2, DefaultNumLabels}
HiddenDims == {32, DefaultHiddenDim}

\* OneFormerModelTester.__init__
Testers ==
    [batch_size : BatchSizes, vocab_size : {DefaultVocabSize}, num_queries : QueryCounts,
     num_channels : {DefaultNumChannels}, min_size : ImageSizes, max_size : ImageSizes,
     num_labels : LabelCounts, hidden_dim : HiddenDims,
     sequence_length : {DefaultSequenceLength}, n_ctx : {DefaultNCtx}]

NoTester == CHOOSE t \in Testers : t.batch_size = DefaultBatchSize /\ t.num_queries = DefaultNumQueries
                /\ t.min_size = DefaultSize /\ t.max_size = DefaultSize
                /\ t.num_labels = DefaultNumLabels /\ t.hidden_dim = DefaultHiddenDim

Tensor(nm, shp) == [name |-> nm, shape |-> shp]

\* an argument the call does not pass
Absent == Tensor("absent", <<>>)

\* Python's None, and a tuple of n tensors
NoneValue == [is_none |-> TRUE, len |-> 0]
TupleOf(n) == [is_none |-> FALSE, len |-> n]

\* a variant that passes the label count as the query count
GetConfigMixedUp(t) ==
    [text_encoder_vocab_size |-> t.vocab_size, hidden_size |-> t.hidden_dim,
     num_queries |-> t.num_labels, num_labels |-> t.num_labels,
     encoder_feedforward_dim |-> 32, dim_feedforward |-> 64,
     encoder_layers |-> 2, decoder_layers |-> 2,
     backbone_depths |-> <<1, 1, 1, 1>>, backbone_num_channels |-> t.num_channels,
     hidden_dim |-> t.hidden_dim, mask_dim |-> t.hidden_dim, conv_dim |-> t.hidden_dim,
     text_encoder_width |-> t.hidden_dim, task_seq_len |-> t.sequence_length,
     max_seq_len |-> t.sequence_length, text_encoder_context_length |-> t.sequence_length,
     text_encoder_n_ctx |-> t.n_ctx, is_training |-> FALSE]

\* OneFormerModelTester.get_config
GetConfig(t) ==
    [text_encoder_vocab_size |-> t.vocab_size, hidden_size |-> t.hidden_dim,
     num_queries |-> t.num_queries, num_labels |-> t.num_labels,
     encoder_feedforward_dim |-> 32, dim_feedforward |-> 64,
     encoder_layers |-> 2, decoder_layers |-> 2,
     backbone_depths |-> <<1, 1, 1, 1>>, backbone_num_channels |-> t.num_channels,
     hidden_dim |-> t.hidden_dim, mask_dim |-> t.hidden_dim, conv_dim |-> t.hidden_dim,
     text_encoder_width |-> t.hidden_dim, task_seq_len |-> t.sequence_length,
     max_seq_len |-> t.sequence_length, text_encoder_context_length |-> t.sequence_length,
     text_encoder_n_ctx |-> t.n_ctx, is_training |-> FALSE]

\* OneFormerModelTester.prepare_config_and_inputs: the 7-tuple it returns
PrepareConfigAndInputs(t) ==
    << GetConfig(t),
       Tensor("pixel_values", <<t.batch_size, t.num_channels, t.min_size, t.max_size>>),
       Tensor("task_inputs", <<t.batch_size, t.sequence_length>>),
       Tensor("text_inputs", <<t.batch_size, t.num_queries - t.n_ctx, t.sequence_length>>),
       Tensor("pixel_mask", <<t.batch_size, t.min_size, t.max_size>>),
       Tensor("mask_labels", <<t.batch_size, t.num_labels, t.min_size, t.max_size>>),
       Tensor("class_labels", <<t.batch_size, t.num_labels>>) >>

\* OneFormerModelTester.prepare_config_and_inputs_for_common:
\* config, pixel_values, task_inputs, pixel_mask, _, _, _ = self.prepare_config_and_inputs()
PrepareConfigAndInputsForCommon(t) ==
    LET tup == PrepareConfigAndInputs(t)
    IN  [config |-> tup[1],
         inputs_dict |-> [pixel_values |-> tup[2], pixel_mask |-> tup[4], task_inputs |-> tup[3]]]

\* the keyword arguments of a forward call; what is not passed is Absent or FALSE
NoKwargs ==
    [pixel_values |-> Absent, task_inputs |-> Absent, text_inputs |-> Absent,
     pixel_mask |-> Absent, mask_labels |-> Absent, class_labels |-> Absent,
     output_hidden_states |-> FALSE, output_attentions |-> FALSE]

\* model(**inputs) for an inputs_dict
KwargsOf(inputs) ==
    [NoKwargs EXCEPT !.pixel_values = inputs.pixel_values,
                     !.task_inputs = inputs.task_inputs,
                     !.pixel_mask = inputs.pixel_mask]

\* the calls a test makes on the model classes, as the call log records them
Build(cls, config) ==
    [op |-> "build", cls |-> cls, is_training |-> config.is_training, kwargs |-> NoKwargs]
Forward(cls, config, kwargs) ==
    [op |-> "forward", cls |-> cls, is_training |-> config.is_training, kwargs |-> kwargs]

\* all_model_classes
AllModelClasses == <<"OneFormerModel", "OneFormerForUniversalSegmentation">>

\* the hidden states a forward may hand back: each None or a tuple of tensors
HiddenStatesOf(enc, pix, dec) ==
    [encoder_hidden_states |-> enc, pixel_decoder_hidden_states |-> pix,
     transformer_decoder_hidden_states |-> dec]
HiddenStates ==
    { HiddenStatesOf(x[1], x[2], x[3]) : x \in
        { <<TupleOf(4), TupleOf(2), TupleOf(1)>>,
          <<NoneValue, TupleOf(2), TupleOf(1)>>,
          <<TupleOf(4), NoneValue, TupleOf(1)>>,
          <<TupleOf(4), TupleOf(2), NoneValue>>,
          <<NoneValue, NoneValue, NoneValue>>,
          <<TupleOf(0), TupleOf(2), TupleOf(1)>>,
          <<TupleOf(4), TupleOf(0), TupleOf(1)>>,
          <<TupleOf(4), TupleOf(2), TupleOf(0)>>,
          <<TupleOf(0), TupleOf(0), NoneValue>>,
          <<TupleOf(3), TupleOf(2), TupleOf(1)>>,
          <<TupleOf(4), TupleOf(3), TupleOf(1)>>,
          <<TupleOf(4), TupleOf(2), TupleOf(2)>>,
          <<TupleOf(1), TupleOf(1), TupleOf(1)>> } }
NoHiddenStates == HiddenStatesOf(NoneValue, NoneValue, NoneValue)

\* the attentions a forward may hand back when asked for them
Attentions == {NoneValue, TupleOf(2)}

\* the backbone's patch embedding halves the image twice, padding odd sizes
CeilDiv4(n) == (n + 3) \div 4

\* OneFormerForUniversalSegmentation(config)(**kwargs): the output's shapes, its loss
\* (computed when both label arguments are given), and the hidden states and
\* attentions the implementation hands back
UniversalSegmentationForward(config, kwargs, hidden, att) ==
    [masks_queries_logits |-> <<kwargs.pixel_values.shape[1], config.num_queries,
                                CeilDiv4(kwargs.pixel_values.shape[3]),
                                CeilDiv4(kwargs.pixel_values.shape[4])>>,
     class_queries_logits |-> <<kwargs.pixel_values.shape[1], config.num_queries,
                                config.num_labels + 1>>,
     loss |-> IF kwargs.mask_labels # Absent /\ kwargs.class_labels # Absent
              THEN <<1>> ELSE <<>>,
     encoder_hidden_states |-> hidden.encoder_hidden_states,
     pixel_decoder_hidden_states |-> hidden.pixel_decoder_hidden_states,
     transformer_decoder_hidden_states |-> hidden.transformer_decoder_hidden_states,
     attentions |-> IF kwargs.output_attentions THEN att ELSE NoneValue]

\* OneFormerModel(config)(**kwargs): the output's shapes, and the hidden states and
\* attentions the implementation hands back when asked for them
ModelForward(config, kwargs, hidden, att) ==
    LET given == IF kwargs.output_hidden_states THEN hidden ELSE NoHiddenStates
    IN  [transformer_decoder_object_queries |->
             <<kwargs.pixel_values.shape[1], config.num_queries, config.hidden_dim>>,
         encoder_hidden_states |-> given.encoder_hidden_states,
         pixel_decoder_hidden_states |-> given.pixel_decoder_hidden_states,
         transformer_decoder_hidden_states |-> given.transformer_decoder_hidden_states,
         attentions |-> IF kwargs.output_attentions THEN att ELSE NoneValue]

\* the leading parameters of the model classes' forward
ForwardArgNames(cls) ==
    IF cls = "OneFormerModel"
    THEN <<"pixel_values", "task_inputs", "text_inputs", "pixel_mask">>
    ELSE <<"pixel_values", "task_inputs", "text_inputs", "mask_labels", "class_labels",
           "pixel_mask">>

\* an assertion: "ok" when it holds, "failed" (AssertionError) when it does not
Check(b) == IF b THEN "ok" ELSE "failed"
\* statements in sequence: the first one that does not pass ends the test
Then(a, b) == IF a = "ok" THEN b ELSE a
\* the outcome unittest reports for the test method
Verdict(v) == IF v = "ok" THEN "passed" ELSE v

\* unittest's assertTrue(expr, msg): fails iff expr is falsy; msg is only the failure message
AssertTrue(expr, msg) == expr # 0

\* self.parent.assertTrue(len(x), expected); len(None) raises TypeError
AssertTrueLen(x, expected) ==
    IF x.is_none THEN "error" ELSE Check(AssertTrue(x.len, expected))

\* OneFormerModelTester.check_output_hidden_state(output, config)
CheckOutputHiddenState(output, config) ==
    Then(AssertTrueLen(output.encoder_hidden_states, Len(config.backbone_depths)),
    Then(AssertTrueLen(output.pixel_decoder_hidden_states, config.encoder_layers),
         AssertTrueLen(output.transformer_decoder_hidden_states, config.decoder_layers - 1)))

\* comm_check_on_output(result): three assertTrue(... is not None), then the two
\* assertEqual on the logits' shapes
CommCheckOnOutput(t, result) ==
    Then(Check(~result.transformer_decoder_hidden_states.is_none),
    Then(Check(~result.pixel_decoder_hidden_states.is_none),
    Then(Check(~result.encoder_hidden_states.is_none),
    Then(Check(result.masks_queries_logits =
                   <<t.batch_size, t.num_queries, t.min_size \div 4, t.max_size \div 4>>),
         Check(result.class_queries_logits =
                   <<t.batch_size, t.num_queries, t.num_labels + 1>>)))))

\* OneFormerModelTester.create_and_check_oneformer_model(config, pixel_values,
\* task_inputs, pixel_mask, output_hidden_states): the output it looks at, the
\* outcome of its assertions, and the calls it makes
CreateAndCheckOneFormerModel(t, config, inputs, output_hidden_states, hidden) ==
    LET cls == "OneFormerModel"
        kwMask == KwargsOf(inputs)
        kwHidden == [NoKwargs EXCEPT !.pixel_values = inputs.pixel_values,
                                     !.task_inputs = inputs.task_inputs,
                                     !.output_hidden_states = TRUE]
        output == ModelForward(config, kwHidden, hidden, NoneValue)
    IN  [output |-> output,
         calls |-> <<Build(cls, config), Forward(cls, config, kwMask),
                     Forward(cls, config, kwHidden)>>,
         outcome |->
             Then(Check(output.transformer_decoder_object_queries =
                            <<t.batch_size, t.num_queries, t.hidden_dim>>),
             Then(Check(~output.pixel_decoder_hidden_states.is_none),
             Then(Check(~output.encoder_hidden_states.is_none),
                  IF output_hidden_states
                  THEN CheckOutputHiddenState(output, config) ELSE "ok")))]

NoHeadOutput ==
    [masks_queries_logits |-> <<>>, class_queries_logits |-> <<>>, loss |-> <<>>,
     encoder_hidden_states |-> NoneValue, pixel_decoder_hidden_states |-> NoneValue,
     transformer_decoder_hidden_states |-> NoneValue, attentions |-> NoneValue]
NoModelOutput ==
    [transformer_decoder_object_queries |-> <<>>,
     encoder_hidden_states |-> NoneValue, pixel_decoder_hidden_states |-> NoneValue,
     transformer_decoder_hidden_states |-> NoneValue, attentions |-> NoneValue]
NoResult == [no_labels |-> NoHeadOutput, with_labels |-> NoHeadOutput, model |-> NoModelOutput]
NoInputs == [pixel_values |-> Tensor("none", <<>>), pixel_mask |-> Tensor("none", <<>>),
             task_inputs |-> Tensor("none", <<>>)]

\* OneFormerModelTest.setUp, with the tester's attributes
SetUp(t) ==
    /\ tpc = "new"
    /\ tpc' = "ready"
    /\ tester' = t
    /\ UNCHANGED <<testName, tinputs, tconfig, tcalls, tresult, tverdict>>
    /\ UNCHANGED <<callVars, envVars, logVars>>

\* test_oneformer_universal_segmentation_head_model:
\* create_and_check_oneformer_universal_segmentation_head_model(*prepare_config_and_inputs())
\* hidden1 and hidden2 are the hidden states of the two results it checks
TestUniversalSegmentationHeadModel(hidden1, hidden2) ==
    /\ tpc = "ready"
    /\ LET tup == PrepareConfigAndInputs(tester)
           cls == "OneFormerForUniversalSegmentation"
           config == tup[1]
           kwMask == [NoKwargs EXCEPT !.pixel_values = tup[2], !.task_inputs = tup[3],
                                      !.pixel_mask = tup[5]]
           kwPlain == [NoKwargs EXCEPT !.pixel_values = tup[2], !.task_inputs = tup[3]]
           first == UniversalSegmentationForward(config, kwPlain, hidden1, NoneValue)
           check1 == CommCheckOnOutput(tester, first)
           training == [config EXCEPT !.is_training = TRUE]
           kwLabels == [kwMask EXCEPT !.mask_labels = tup[6], !.class_labels = tup[7],
                                      !.text_inputs = tup[4]]
           second == UniversalSegmentationForward(training, kwLabels, hidden2, NoneValue)
           check2 == Then(CommCheckOnOutput(tester, second),
                     Then(Check(second.loss # <<>>),
                          Check(second.loss = <<1>>)))
           calls1 == <<Build(cls, config), Forward(cls, config, kwMask),
                       Forward(cls, config, kwPlain)>>
       IN  IF check1 # "ok"
           THEN /\ tresult' = [NoResult EXCEPT !.no_labels = first]
                /\ tconfig' = config
                /\ tcalls' = calls1
                /\ tverdict' = Verdict(check1)
           ELSE /\ tresult' = [NoResult EXCEPT !.no_labels = first, !.with_labels = second]
                /\ tconfig' = training
                /\ tcalls' = calls1 \o <<Build(cls, training), Forward(cls, training, kwLabels)>>
                /\ tverdict' = Verdict(check2)
    /\ testName' = "test_oneformer_universal_segmentation_head_model"
    /\ tpc' = "done"
    /\ UNCHANGED <<tester, tinputs>>
    /\ UNCHANGED <<callVars, envVars, logVars>>

\* test_oneformer_model:
\* create_and_check_oneformer_model(config, **inputs, output_hidden_states=False)
TestOneFormerModel(hidden) ==
    /\ tpc = "ready"
    /\ LET common == PrepareConfigAndInputsForCommon(tester)
           run == CreateAndCheckOneFormerModel(tester, common.config, common.inputs_dict,
                                               FALSE, hidden)
       IN  /\ tinputs' = common.inputs_dict
           /\ tconfig' = common.config
           /\ tcalls' = run.calls
           /\ tresult' = [NoResult EXCEPT !.model = run.output]
           /\ tverdict' = Verdict(run.outcome)
    /\ testName' = "test_oneformer_model"
    /\ tpc' = "done"
    /\ UNCHANGED tester
    /\ UNCHANGED <<callVars, envVars, logVars>>

\* test_hidden_states_output:
\* create_and_check_oneformer_model(config, **inputs, output_hidden_states=True)
TestHiddenStatesOutput(hidden) ==
    /\ tpc = "ready"
    /\ LET common == PrepareConfigAndInputsForCommon(tester)
           run == CreateAndCheckOneFormerModel(tester, common.config, common.inputs_dict,
                                               TRUE, hidden)
       IN  /\ tinputs' = common.inputs_dict
           /\ tconfig' = common.config
           /\ tcalls' = run.calls
           /\ tresult' = [NoResult EXCEPT !.model = run.output]
           /\ tverdict' = Verdict(run.outcome)
    /\ testName' = "test_hidden_states_output"
    /\ tpc' = "done"
    /\ UNCHANGED tester
    /\ UNCHANGED <<callVars, envVars, logVars>>

\* test_forward_signature: for each model class, build it and compare the first two
\* parameters of its forward with ["pixel_values", "task_inputs"]
TestForwardSignature ==
    /\ tpc = "ready"
    /\ LET common == PrepareConfigAndInputsForCommon(tester)
           expected == <<"pixel_values", "task_inputs">>
           check1 == Check(SubSeq(ForwardArgNames(AllModelClasses[1]), 1, 2) = expected)
           check2 == Check(SubSeq(ForwardArgNames(AllModelClasses[2]), 1, 2) = expected)
       IN  /\ tinputs' = common.inputs_dict
           /\ tconfig' = common.config
           /\ tcalls' = IF check1 # "ok"
                        THEN <<Build(AllModelClasses[1], common.config)>>
                        ELSE <<Build(AllModelClasses[1], common.config),
                               Build(AllModelClasses[2], common.config)>>
           /\ tverdict' = Verdict(Then(check1, check2))
    /\ testName' = "test_forward_signature"
    /\ tpc' = "done"
    /\ UNCHANGED <<tester, tresult>>
    /\ UNCHANGED <<callVars, envVars, logVars>>

\* what mindspore's ops.zeros(size, dtype) may do when 150 is passed where the dtype
\* goes: hand back a tensor of the size asked for, or raise
ZerosOutcomes == {"tensor", "raises"}

\* ops.zeros(2, 150): the first positional argument is the size, the second the dtype
OpsZeros(size, dtype) == <<size>>

\* test_model_with_labels: the head model, built with is_training = True, run on
\* inputs with labels that the test builds itself; zeros is what ops.zeros(2, 150) does
TestModelWithLabels(hidden, zeros) ==
    /\ tpc = "ready"
    /\ LET cls == "OneFormerForUniversalSegmentation"
           size == tester.min_size
           inputs ==
               [NoKwargs EXCEPT
                    !.pixel_values = Tensor("pixel_values", <<2, 3, size, size>>),
                    !.task_inputs = Tensor("task_inputs", <<2, 77>>),
                    !.text_inputs = Tensor("text_inputs", <<2, 6, 77>>),
                    !.mask_labels = Tensor("mask_labels", <<2, 150, size, size>>),
                    !.class_labels = Tensor("class_labels", OpsZeros(2, 150))]
           config == [GetConfig(tester) EXCEPT !.is_training = TRUE]
           outputs == UniversalSegmentationForward(config, inputs, hidden, NoneValue)
       IN  IF zeros = "raises"
           THEN /\ tverdict' = "error"
                /\ UNCHANGED <<tconfig, tcalls, tresult>>
           ELSE /\ tconfig' = config
                /\ tcalls' = <<Build(cls, config), Forward(cls, config, inputs)>>
                /\ tresult' = [NoResult EXCEPT !.with_labels = outputs]
                /\ tverdict' = Verdict(Check(outputs.loss # <<>>))
    /\ testName' = "test_model_with_labels"
    /\ tpc' = "done"
    /\ UNCHANGED <<tester, tinputs>>
    /\ UNCHANGED <<callVars, envVars, logVars>>

\* ConfigTester(self, config_class=OneFormerConfig, has_text_modality=False).run_common_tests()
RunCommonTests(config_class) == "ok"

\* test_config: self.config_tester.run_common_tests(); it builds no model and does
\* not read the model tester
TestConfig ==
    /\ tpc = "ready"
    /\ tverdict' = Verdict(RunCommonTests("OneFormerConfig"))
    /\ testName' = "test_config"
    /\ tpc' = "done"
    /\ UNCHANGED <<tester, tinputs, tconfig, tcalls, tresult>>
    /\ UNCHANGED <<callVars, envVars, logVars>>

\* model_class.main_input_name
MainInputName(cls) == <<"pixel_values", "task_inputs">>

\* the parameters of getattr(model_class, "construct"), self first
ConstructArgNames(cls) == <<"self">> \o ForwardArgNames(cls)

\* test_model_main_input_name: for each model class, compare main_input_name with
\* the two parameters after self; it builds no model
TestModelMainInputName ==
    /\ tpc = "ready"
    /\ LET check1 == Check(MainInputName(AllModelClasses[1]) =
                              SubSeq(ConstructArgNames(AllModelClasses[1]), 2, 3))
           check2 == Check(MainInputName(AllModelClasses[2]) =
                              SubSeq(ConstructArgNames(AllModelClasses[2]), 2, 3))
       IN  tverdict' = Verdict(Then(check1, check2))
    /\ testName' = "test_model_main_input_name"
    /\ tpc' = "done"
    /\ UNCHANGED <<tester, tinputs, tconfig, tcalls, tresult>>
    /\ UNCHANGED <<callVars, envVars, logVars>>

\* test_attention_outputs: for each model class, model(**inputs, output_attentions=True)
\* and assertTrue(outputs.attentions is not None); att1 and att2 are the attentions
\* the two classes hand back
TestAttentionOutputs(hidden, att1, att2) ==
    /\ tpc = "ready"
    /\ LET common == PrepareConfigAndInputsForCommon(tester)
           config == common.config
           kwargs == [KwargsOf(common.inputs_dict) EXCEPT !.output_attentions = TRUE]
           out1 == ModelForward(config, kwargs, hidden, att1)
           out2 == UniversalSegmentationForward(config, kwargs, hidden, att2)
           check1 == Check(~out1.attentions.is_none)
           check2 == Check(~out2.attentions.is_none)
           calls1 == <<Build(AllModelClasses[1], config),
                       Forward(AllModelClasses[1], config, kwargs)>>
       IN  /\ tinputs' = common.inputs_dict
           /\ tconfig' = config
           /\ IF check1 # "ok"
              THEN /\ tresult' = [NoResult EXCEPT !.model = out1]
                   /\ tcalls' = calls1
              ELSE /\ tresult' = [NoResult EXCEPT !.model = out1, !.no_labels = out2]
                   /\ tcalls' = calls1 \o <<Build(AllModelClasses[2], config),
                                            Forward(AllModelClasses[2], config, kwargs)>>
           /\ tverdict' = Verdict(Then(check1, check2))
    /\ testName' = "test_attention_outputs"
    /\ tpc' = "done"
    /\ UNCHANGED tester
    /\ UNCHANGED <<callVars, envVars, logVars>>

TestIdle ==
    /\ tpc = "new"
    /\ testName = "none"
    /\ tester = NoTester
    /\ tinputs = NoInputs
    /\ tconfig = GetConfig(NoTester)
    /\ tcalls = <<>>
    /\ tresult = NoResult
    /\ tverdict = "none"

(***************************************************************************)
(* The initializer's specification.                                        *)
(***************************************************************************)
Init ==
    /\ pc = Const("idle")
    /\ caller = Const("direct")
    /\ gain = Const(1)
    /\ arr = Const(NoArray)
    /\ fan = Const(NoFan)
    /\ mean = Const(0)
    /\ sigma = Const(Root(0, 0, 1))
    /\ shape = Const(<<>>)
    /\ data = Const(NoArray)
    /\ seedv = Const(U64Zero)
    /\ ret = Const("unset")
    /\ err = Const("none")
    /\ gen \in {g \in [Runs -> [kind : {"entropy"}, seed : Entropies, pos : {0}]] : g["A"].seed = 1}
    /\ clock \in {c \in [Runs -> 0..1] : c["A"] = 0}
    /\ mtStream \in 0..2
    /\ lastNative = Const(NoNative)
    /\ steps = Const(<<>>)
    /\ nCalls = Const(0)
    /\ nOk = Const(0)
    /\ nDraws = Const(0)
    /\ nNative = Const(0)
    /\ nSinceSeed = Const(0)
    /\ nAssign = Const(0)
    /\ TestIdle

Next ==
    \/ \E s \in NpSeeds : NpRandomSeed(s)
    \/ Tick
    \/ \E g \in Gains, shp \in Shapes : CallInitialize(g, shp)
    \/ CalculateFan
    \/ ComputeStd
    \/ \E mu \in Means, sg \in Sigmas, shp \in DirectShapes : CallInitRandomNormal(mu, sg, shp)
    \/ CheckSigma
    \/ AllocData
    \/ NumpySeed
    \/ CallRandomNormal
    \/ ReturnData
    \/ Assign

Spec == Init /\ [][Next]_vars

(***************************************************************************)
(* The unit tests' specification: the initializer is not running.          *)
(***************************************************************************)
InitTest ==
    /\ Init
    /\ gen = Const([kind |-> "entropy", seed |-> 1, pos |-> 0])
    /\ clock = Const(0)
    /\ mtStream = 0

NextTest ==
    \/ \E t \in Testers : SetUp(t)
    \/ \E hidden1 \in HiddenStates, hidden2 \in HiddenStates :
           TestUniversalSegmentationHeadModel(hidden1, hidden2)
    \/ \E hidden \in HiddenStates : TestOneFormerModel(hidden)
    \/ \E hidden \in HiddenStates : TestHiddenStatesOutput(hidden)
    \/ TestForwardSignature
    \/ \E hidden \in HiddenStates, zeros \in ZerosOutcomes : TestModelWithLabels(hidden, zeros)
    \/ TestConfig
    \/ TestModelMainInputName
    \/ \E hidden \in HiddenStates, att1 \in Attentions, att2 \in Attentions :
           TestAttentionOutputs(hidden, att1, att2)

SpecTest == InitTest /\ [][NextTest]_vars


(***************************************************************************)
(* Properties of the initializer.                                          *)
(***************************************************************************)
Executed(r, st) == \E i \in DOMAIN steps[r] : steps[r][i] = st
Completed(r) == pc[r] = "idle" /\ nCalls[r] > 0 /\ err[r] = "none"

\* C1: _init_random_normal(mean, sigma, shape) raises ValueError exactly when
\* sigma < 0: once the validation has run, the call has raised iff sigma is
\* negative, and a call with sigma >= 0 (zero included) that has ended has ended
\* without an exception, its buffer of the requested shape filled (and returned
\* to a direct caller).
C1_RejectsExactlyNegativeSigma ==
    \A r \in Runs :
        Executed(r, "check") =>
            /\ (err[r] = "ValueError") <=> (sigma[r].sgn < 0)
            /\ (sigma[r].sgn >= 0 /\ pc[r] = "idle") =>
                   /\ err[r] = "none"
                   /\ data[r].content.filled
                   /\ data[r].shape = shape[r]
                   /\ (caller[r] = "direct" => ret[r] = "data")

C1_Witness ==
    /\ pc["A"] = "idle"
    /\ caller["A"] = "direct"
    /\ Executed("A", "check")
    /\ sigma["A"].sgn = 0
    /\ ret["A"] = "data"

\* C2: whenever XavierNormal._initialize has requested the Gaussian fill, the
\* request has mean 0, the shape of the array being initialized, and a standard
\* deviation sigma with the sign of the gain and
\* sigma^2 * (fan_in + fan_out) = 2 * gain^2, the fans being those of the array's shape.
C2_XavierSigma ==
    \A r \in Runs :
        (caller[r] = "XavierNormal" /\ Executed(r, "std") /\ err[r] # "ZeroDivisionError") =>
            LET f == CalculateFanInAndFanOut(arr[r].shape)
            IN  /\ f.fan_in + f.fan_out > 0
                /\ mean[r] = 0
                /\ shape[r] = arr[r].shape
                /\ sigma[r].sgn = Sign(gain[r])
                /\ sigma[r].num * (f.fan_in + f.fan_out) = 2 * gain[r] * gain[r] * sigma[r].den

C2_Witness ==
    /\ Completed("A")
    /\ caller["A"] = "XavierNormal"
    /\ gain["A"] = 2
    /\ arr["A"].shape = <<2, 1, 3>>
    /\ lastNative["A"].sigma = [sgn |-> 1, num |-> 8, den |-> 9]

\* C3: two runs that called numpy.random.seed with the same seed and then made
\* the same initializer calls hand the same (seed, mean, sigma, shape) to the
\* native random_normal at every corresponding call, whatever their system
\* times and the earlier states of their generators.
C3_SameSeedSameNativeCalls ==
    (/\ gen["A"].kind = "seed"
     /\ gen["B"].kind = "seed"
     /\ gen["A"].seed = gen["B"].seed
     /\ nSinceSeed["A"] > 0) =>
        /\ nSinceSeed["A"] = nSinceSeed["B"]
        /\ lastNative["A"] = lastNative["B"]
        /\ gen["A"] = gen["B"]

C3_Witness ==
    /\ gen["A"].kind = "seed"
    /\ gen["B"].kind = "seed"
    /\ nSinceSeed["A"] = 2
    /\ nNative["A"] = 2
    /\ clock["A"] # clock["B"]
    /\ lastNative["A"] = lastNative["B"]

\* C4: the seed handed to the native random_normal is derived from the current
\* system time: two runs that draw it at the same system time hand over the same seed.
C4_SeedFromSystemTime ==
    (/\ pc["A"] = "native"
     /\ pc["B"] = "native"
     /\ clock["A"] = clock["B"]) => seedv["A"] = seedv["B"]

\* C5 as claimed: no step of an initializer call changes state shared between
\* calls (numpy's global generator).
C5_Stateless == [][(pc' # pc) => gen' = gen]_vars

\* C5 as amended: the only state shared between calls that a step of an
\* initializer call changes is numpy's global generator, which the _numpy_seed
\* step moves one position on and no other step changes; the system time and
\* the generator's stream are untouched, and the target array changes only at
\* the final assignment.
C5_OnlyGeneratorShared ==
    [][(pc' # pc) =>
          /\ clock' = clock
          /\ mtStream' = mtStream
          /\ \A r \in Runs :
                /\ gen'[r] = IF pc[r] = "seed"
                             THEN [kind |-> gen[r].kind, seed |-> gen[r].seed, pos |-> gen[r].pos + 1]
                             ELSE gen[r]
                /\ (pc[r] \notin {"idle", "assign"} => arr'[r] = arr[r])]_vars

C5_Witness ==
    /\ pc["A"] = "native"
    /\ gen["A"].pos = 1
    /\ nDraws["A"] = 1

\* C6: XavierNormal._initialize raises no error, whatever the gain and the array.
C6_InitializeNeverRaises ==
    \A r \in Runs : caller[r] = "XavierNormal" => err[r] = "none"

\* C7: every value _numpy_seed has returned, and every seed handed to the
\* native random_normal, is an integer s with 1 <= s <= 2^63 - 1.
C7_SeedInInt64Range ==
    \A r \in Runs :
        /\ Executed(r, "seed") =>
               /\ U64Le(U64One, seedv[r])
               /\ U64Lt(seedv[r], Shl1(63))
               /\ U64Le(seedv[r], Int64Max)
        /\ nNative[r] > 0 =>
               /\ U64Le(U64One, lastNative[r].seed)
               /\ U64Le(lastNative[r].seed, Int64Max)

C7_Witness ==
    /\ Executed("A", "native")
    /\ seedv["A"] = Int64Max
    /\ lastNative["A"].seed = Int64Max
    /\ seedv["B"] = U64One

\* C8: when XavierNormal._initialize has completed, the buffer it generated
\* has the shape of the target array and element type float32, its content
\* has been copied into that same array object (still the caller's object,
\* with its shape), and the call returned None, not an array.
C8_InPlaceReturnsNone ==
    \A r \in Runs :
        (caller[r] = "XavierNormal" /\ Completed(r)) =>
            /\ Executed(r, "assign")
            /\ data[r].shape = arr[r].shape
            /\ data[r].dtype = "float32"
            /\ data[r].content.filled
            /\ arr[r].id = "arr"
            /\ data[r].id # arr[r].id
            /\ arr[r].content = data[r].content
            /\ arr[r].content = [filled |-> TRUE, seed |-> lastNative[r].seed,
                                 mean |-> 0, sigma |-> lastNative[r].sigma]
            /\ ret[r] = "None"

C8_Witness ==
    /\ caller["A"] = "XavierNormal"
    /\ Completed("A")
    /\ arr["A"].shape = <<2, 1, 3>>
    /\ arr["A"].content.filled
    /\ ret["A"] = "None"

\* C10: a successful XavierNormal._initialize has executed, in this order and
\* once each, the fan computation, the sigma validation, the buffer allocation,
\* the seed draw, the native call (with the seed drawn) and the assignment;
\* between calls, after k successful calls, the generator has made exactly k
\* draws (it stands k positions on if it was never re-seeded) and the native
\* primitive has been called exactly k times.
ClaimedSteps == {"fan", "check", "alloc", "seed", "native", "assign"}
IsClaimedStep(st) == st \in ClaimedSteps

C10_StepOrderAndCounts ==
    \A r \in Runs :
        /\ (caller[r] = "XavierNormal" /\ Completed(r)) =>
               /\ SelectSeq(steps[r], IsClaimedStep) =
                      <<"fan", "check", "alloc", "seed", "native", "assign">>
               /\ lastNative[r].seed = seedv[r]
        /\ pc[r] = "idle" =>
               /\ nDraws[r] = nOk[r]
               /\ nNative[r] = nOk[r]
               /\ (gen[r].kind = "entropy" => gen[r].pos = nOk[r])
        /\ nNative[r] <= nDraws[r]
        /\ nDraws[r] <= nNative[r] + 1
        /\ nAssign[r] <= nOk[r]

C10_Witness ==
    /\ caller["A"] = "XavierNormal"
    /\ Completed("A")
    /\ nOk["A"] = 2
    /\ nDraws["A"] = 2
    /\ nNative["A"] = 2
    /\ nAssign["A"] = 2
    /\ gen["A"].kind = "entropy"


(***************************************************************************)
(* Properties of the unit tests.                                           *)
(***************************************************************************)
\* none of the three hidden states of an output is None
HiddenStatesPresent(res) ==
    /\ ~res.transformer_decoder_hidden_states.is_none
    /\ ~res.pixel_decoder_hidden_states.is_none
    /\ ~res.encoder_hidden_states.is_none

\* C9: for an image height and width that are multiples of 4 and the tester's
\* configuration and inputs, every output of the head model (without labels and
\* with labels) has masks_queries_logits of shape (batch_size, num_queries,
\* H // 4, W // 4) and class_queries_logits of shape (batch_size, num_queries,
\* num_labels + 1), every output of OneFormerModel has
\* transformer_decoder_object_queries of shape (batch_size, num_queries,
\* hidden_dim), so no shape assertion fails: the head test reaches its forward
\* with labels and the two shape tests pass whenever the hidden states they
\* ask for are there.
C9_OutputShapesMatchConfig ==
    (tpc = "done" /\ tester.min_size % 4 = 0 /\ tester.max_size % 4 = 0) =>
        /\ testName # "test_model_with_labels" =>
               /\ \A res \in {tresult.no_labels, tresult.with_labels} \ {NoHeadOutput} :
                      /\ res.masks_queries_logits =
                             <<tester.batch_size, tester.num_queries,
                               tester.min_size \div 4, tester.max_size \div 4>>
                      /\ res.class_queries_logits =
                             <<tester.batch_size, tester.num_queries, tester.num_labels + 1>>
               /\ tresult.model # NoModelOutput =>
                      tresult.model.transformer_decoder_object_queries =
                          <<tester.batch_size, tester.num_queries, tester.hidden_dim>>
        /\ testName = "test_oneformer_universal_segmentation_head_model" =>
               /\ tresult.no_labels # NoHeadOutput
               /\ HiddenStatesPresent(tresult.no_labels) =>
                      /\ tresult.with_labels # NoHeadOutput
                      /\ tresult.with_labels.loss = <<1>>
                      /\ HiddenStatesPresent(tresult.with_labels) => tverdict = "passed"
        /\ testName = "test_oneformer_model" =>
               /\ tresult.model # NoModelOutput
               /\ (/\ ~tresult.model.pixel_decoder_hidden_states.is_none
                   /\ ~tresult.model.encoder_hidden_states.is_none) => tverdict = "passed"

C9_Witness ==
    /\ tpc = "done"
    /\ testName = "test_oneformer_universal_segmentation_head_model"
    /\ tester.min_size = DefaultSize
    /\ tester.max_size = 4
    /\ tresult.no_labels.masks_queries_logits = <<2, 10, 64, 1>>
    /\ tresult.with_labels.masks_queries_logits = <<2, 10, 64, 1>>
    /\ tresult.with_labels.class_queries_logits = <<2, 10, 5>>
    /\ tconfig.is_training
    /\ Len(tcalls) = 5
    /\ tverdict = "passed"

\* C11: the inputs_dict prepare_config_and_inputs_for_common returns holds the
\* like-named tensors of prepare_config_and_inputs: 'pixel_values' its
\* pixel_values, 'task_inputs' its task_inputs, and 'pixel_mask' its pixel_mask,
\* the all-ones tensor of shape [batch_size, min_size, max_size].
C11_InputsDictLikeNamed ==
    (tpc = "done" /\ tinputs # NoInputs) =>
        LET tup == PrepareConfigAndInputs(tester)
        IN  /\ tinputs.pixel_values = tup[2]
            /\ tinputs.task_inputs = tup[3]
            /\ tinputs.pixel_mask = tup[5]
            /\ tinputs.pixel_mask =
                   Tensor("pixel_mask", <<tester.batch_size, tester.min_size, tester.max_size>>)

\* C12: check_output_hidden_state fails the test whenever a hidden-state count
\* is wrong: test_hidden_states_output passes only when
\* len(encoder_hidden_states) = len(config.backbone_config.depths),
\* len(pixel_decoder_hidden_states) = config.encoder_layers and
\* len(transformer_decoder_hidden_states) = config.decoder_layers - 1, and
\* fails if any of the three differs.
C12_WrongCountFailsTest ==
    (tpc = "done" /\ testName = "test_hidden_states_output") =>
        (tverdict = "passed") <=>
            /\ HiddenStatesPresent(tresult.model)
            /\ tresult.model.encoder_hidden_states.len = Len(tconfig.backbone_depths)
            /\ tresult.model.pixel_decoder_hidden_states.len = tconfig.encoder_layers
            /\ tresult.model.transformer_decoder_hidden_states.len = tconfig.decoder_layers - 1

=============================================================================
